---- MODULE Spec2Model ----
(***************************************************************************)
(* A model of src/openfido.py: the census boundary cache (get_states,      *)
(* get_zipcodes), the containment lookup they end with, and the enrichment *)
(* pipeline (main) that drives them.                                       *)
(*                                                                         *)
(* Text values (str) are tuples of one-character strings, so that str[0],  *)
(* str.startswith and "for digit in ..." are computed as Python computes   *)
(* them.  A data frame is a record [columns, index, rows]: the column      *)
(* names, the row labels and the rows (records over the columns).  A file  *)
(* of the cache directory is [st, data]: absent, partially written, or     *)
(* completely written with its content.                                    *)
(*                                                                         *)
(* The module reads geopandas, pandas, pickle and urllib as the libraries  *)
(* of those names (the file names them without importing them).            *)
(***************************************************************************)
EXTENDS Integers, Sequences, FiniteSets, TLC

(* ------------------------------------------------------------------ *)
(* Bounds of the model                                                 *)
(* ------------------------------------------------------------------ *)
\* processes that share the cache directory
NProcs == 2
\* process crashes (each followed by a fresh process) in one behaviour
MaxCrash == 1
\* get_states / get_zipcodes calls made directly at one place (a process and
\* the fresh ones that take its place)
MaxCalls == 3
\* calls the processes running at the same time make, all together
MaxConcCalls == 2
\* rows of the record set handed to main
MaxRows == 2

Procs == 1..NProcs

(* ------------------------------------------------------------------ *)
(* Values                                                              *)
(* ------------------------------------------------------------------ *)
\* Python's None where a str is expected, pandas' NaN, and an empty Point
None == <<"None">>
NaN == <<"NaN">>
NoPoint == <<>>

\* bool(x) of a str-or-None argument ("elif value:", "elif zipcode:")
Truthy(x) == x # None /\ x # <<>>

\* s.startswith(prefix)
StartsWith(s, prefix) ==
    /\ Len(prefix) <= Len(s)
    /\ \A i \in 1..Len(prefix) : s[i] = prefix[i]

\* the rows (and their labels) at the places where keep is true, in order
RECURSIVE SelectRows(_, _, _)
SelectRows(rows, index, keep) ==
    IF rows = <<>> THEN [rows |-> <<>>, index |-> <<>>]
    ELSE LET rest == SelectRows(Tail(rows), Tail(index), Tail(keep))
         IN  IF Head(keep)
             THEN [rows |-> <<Head(rows)>> \o rest.rows,
                   index |-> <<Head(index)>> \o rest.index]
             ELSE rest

(* ------------------------------------------------------------------ *)
(* Geometry: a polygon is an axis-parallel rectangle of the plane, a   *)
(* point a pair <<longitude, latitude>>                                *)
(* ------------------------------------------------------------------ *)
Rect(x0, x1, y0, y1) == [x0 |-> x0, x1 |-> x1, y0 |-> y0, y1 |-> y1]

\* shapely's polygon.contains(point): the interior, not the boundary
Contains(g, pt) ==
    /\ pt # NoPoint
    /\ g.x0 < pt[1] /\ pt[1] < g.x1
    /\ g.y0 < pt[2] /\ pt[2] < g.y1

(* ------------------------------------------------------------------ *)
(* Data frames                                                         *)
(* ------------------------------------------------------------------ *)
Frame(columns, rows) ==
    [columns |-> columns, index |-> [i \in 1..Len(rows) |-> i - 1], rows |-> rows]

\* df[mask]: the rows whose mask is true, labels kept
Filter(df, keep) ==
    LET sel == SelectRows(df.rows, df.index, keep)
    IN  [columns |-> df.columns, index |-> sel.index, rows |-> sel.rows]

\* df.reset_index(): the labels become column "index", the new labels are 0..n-1
ResetIndex(df) ==
    [columns |-> df.columns \cup {"index"},
     index |-> [i \in 1..Len(df.rows) |-> i - 1],
     rows |-> [i \in 1..Len(df.rows) |->
                 [c \in df.columns \cup {"index"} |->
                     IF c = "index" THEN df.index[i] ELSE df.rows[i][c]]]]

\* gdf.contains(pt): one boolean per row
ContainsMask(df, pt) == [i \in 1..Len(df.rows) |-> Contains(df.rows[i]["geometry"], pt)]

(* ------------------------------------------------------------------ *)
(* The boundary archives of the TIGER repository, as geopandas reads   *)
(* them: a small geography.  South band (0 < y < 2): the District of    *)
(* Columbia, New York (ZIP codes starting with 0 and with 1, and a      *)
(* strip with no ZCTA), open sea east of x = 8.  North band             *)
(* (2 < y < 4): New Hampshire (ZIP codes 03...), Guam (a territory: the *)
(* state archive has it, ZIP codes 969..), and New Jersey with          *)
(* Pennsylvania drawn over its east, as are New Jersey's two ZCTAs      *)
(* (overlap, invalid input data).                                       *)
(* ------------------------------------------------------------------ *)
StateRow(usps, g) == [STUSPS |-> usps, geometry |-> g]
ZctaRow(id, g) == [ZCTA5CE10 |-> id, GEOID10 |-> id, geometry |-> g]

StateArchive ==
    Frame({"STUSPS", "geometry"},
          << StateRow(<<"D","C">>, Rect(0, 2, 0, 2)),
             StateRow(<<"N","Y">>, Rect(2, 8, 0, 2)),
             StateRow(<<"N","H">>, Rect(0, 2, 2, 4)),
             StateRow(<<"G","U">>, Rect(2, 4, 2, 4)),
             StateRow(<<"N","J">>, Rect(4, 7, 2, 4)),
             StateRow(<<"P","A">>, Rect(5, 8, 2, 4)) >>)

ZipcodeArchive ==
    Frame({"ZCTA5CE10", "GEOID10", "geometry"},
          << ZctaRow(<<"0","0">>, Rect(2, 4, 0, 2)),
             ZctaRow(<<"1","0">>, Rect(4, 6, 0, 2)),
             ZctaRow(<<"2","0">>, Rect(0, 2, 0, 2)),
             ZctaRow(<<"0","3">>, Rect(0, 2, 2, 4)),
             ZctaRow(<<"9","6">>, Rect(2, 4, 2, 4)),
             ZctaRow(<<"0","7">>, Rect(4, 7, 2, 4)),
             ZctaRow(<<"0","8">>, Rect(4, 7, 2, 4)) >>)

\* the points queried: in DC, in NY (ZIP 00, ZIP 10, no ZCTA), on the DC/NY
\* border, at sea, in NH, in Guam, and where two polygons lie over each other
PtDC == <<1, 1>>
PtNY0 == <<3, 1>>
PtNY1 == <<5, 1>>
PtNYNoZip == <<7, 1>>
PtBorder == <<2, 1>>
PtSea == <<9, 1>>
PtNH == <<1, 3>>
PtGU == <<3, 3>>
PtOverlap == <<6, 3>>
Points == {PtDC, PtNY0, PtNY1, PtNYNoZip, PtBorder, PtSea, PtNH, PtGU, PtOverlap}

(* ------------------------------------------------------------------ *)
(* State                                                               *)
(* ------------------------------------------------------------------ *)
VARIABLES
    fs,            \* the cache directory: path -> file
    state_data,    \* per process: the global state_data
    zipcode_data,  \* per process: the global zipcode_data
    pc,            \* per process: where its get_states/get_zipcodes call stands
    frame,         \* per process: the arguments and locals of that call
    netio,         \* per process: urlopen calls made, per archive
    last,          \* per process: the call that just ended, and how
    first,         \* per process and cache key: the first call that returned
    again,         \* per process and cache key: the latest later call that returned
    calls,         \* per place: direct calls made
    crashes,       \* crashes so far
    crashed,       \* per process: where its last crash cut a call
    writes,        \* per path: the times the file was written to its end
    mpc,           \* main: where it stands ("off": main is not run)
    data,          \* main: the record set, changed in place
    data0,         \* main: the record set as the caller handed it over
    options,       \* main: the field lists of the three groups
    result,        \* main: the list "result" of the group at work
    row,           \* main: the record the loop is at
    digits,        \* main: the digits of the record's state still to probe
    group,         \* main: the group at work
    merr,          \* main: the exception that ended it
    warnings       \* main: warnings emitted

mainVars == <<mpc, data, data0, options, result, row, digits, group, merr, warnings>>

(* ------------------------------------------------------------------ *)
(* The cache directory                                                 *)
(* ------------------------------------------------------------------ *)
Digits == {"0", "1", "2", "3", "4", "5", "6", "7", "8", "9"}

\* config['cachedir'] + "/states", + "/zipcodes"
states_file == "states"
zipcode_file == "zipcodes"

\* f"{file}.zip", f"{file}{digit}.gdf" (digit "" for f"{file}.gdf"), and f"{file}"
ZipPath(file) == <<file, "", ".zip">>
GdfPath(file, digit) == <<file, digit, ".gdf">>
BarePath(file) == <<file, "", "">>

Paths ==
    {ZipPath(states_file), GdfPath(states_file, ""), BarePath(states_file),
     ZipPath(zipcode_file), GdfPath(zipcode_file, ""), BarePath(zipcode_file)}
    \cup {GdfPath(zipcode_file, d) : d \in Digits}

NoFrame == Frame({}, <<>>)
Absent == [st |-> "absent", data |-> NoFrame]
Partial == [st |-> "partial", data |-> NoFrame]
Written(df) == [st |-> "full", data |-> df]

\* os.path.exists(path)
Exists(path) == fs[path].st # "absent"

\* the module-level "state_data = None" / "zipcode_data = None", and a loaded frame
Unloaded == [none |-> TRUE, df |-> NoFrame]
Loaded(df) == [none |-> FALSE, df |-> df]

\* what the TIGER repository serves for each archive
Upstream(file) == IF file = states_file THEN StateArchive ELSE ZipcodeArchive

(* ------------------------------------------------------------------ *)
(* Cache keys, as the specification counts them: (kind, partition)     *)
(* ------------------------------------------------------------------ *)
\* str(zipcode)[0]
Digit(zipcode) == zipcode[1]

\* zipcode_data[zipcode_data["GEOID10"].str[0]==digit]
Partition(df, digit) ==
    Filter(df, [i \in 1..Len(df.rows) |-> df.rows[i]["GEOID10"][1] = digit])

KeyOf(fn, zipcode) ==
    IF fn = "get_states" THEN <<states_file, "">>
    ELSE IF zipcode = None THEN <<zipcode_file, "">>
    ELSE <<zipcode_file, Digit(zipcode)>>

Keys == {<<states_file, "">>, <<zipcode_file, "">>} \cup {<<zipcode_file, d>> : d \in Digits}

\* the data set a key stands for
DatasetOf(key) ==
    IF key[1] = states_file THEN StateArchive
    ELSE IF key[2] = "" THEN ZipcodeArchive
    ELSE Partition(ZipcodeArchive, key[2])

(* ------------------------------------------------------------------ *)
(* A call                                                              *)
(* ------------------------------------------------------------------ *)
NoCall ==
    [fn |-> "none", value |-> None, zipcode |-> None, contains |-> NoPoint,
     net0 |-> 0, fetched |-> FALSE, corrupt |-> FALSE, recovers |-> FALSE,
     hit |-> FALSE]

NoLast ==
    [fn |-> "none", value |-> None, zipcode |-> None, contains |-> NoPoint,
     err |-> "none", used |-> Unloaded, result |-> NoFrame,
     fetched |-> FALSE, corrupt |-> FALSE, recovers |-> FALSE, hit |-> FALSE,
     torn |-> FALSE]

NoUse == [set |-> FALSE, used |-> Unloaded, net |-> 0]

\* the file base and the global a call works on
FileOf(fn) == IF fn = "get_states" THEN states_file ELSE zipcode_file
Memo(p) == IF frame[p].fn = "get_states" THEN state_data[p] ELSE zipcode_data[p]

\* the serialized form a call looks for
GdfOf(f) ==
    IF f.fn = "get_states" THEN GdfPath(states_file, "")
    ELSE IF f.zipcode # None THEN GdfPath(zipcode_file, Digit(f.zipcode))
    ELSE GdfPath(zipcode_file, "")

(* ------------------------------------------------------------------ *)
(* get_states / get_zipcodes: loading the data set                     *)
(* ------------------------------------------------------------------ *)
\* the file the call is about to read is one another process has opened for
\* writing and not closed yet
TornRead(p) ==
    \E q \in Procs \ {p} :
        \/ /\ pc[p] = "parse"
           /\ pc[q] = "write_zip"
           /\ FileOf(frame[q].fn) = FileOf(frame[p].fn)
        \/ /\ pc[p] = "load"
           /\ pc[q] = "dump"
           /\ GdfOf(frame[q]) = GdfOf(frame[p])

\* a call ends by raising err
Raise(p, err) ==
    /\ pc' = [pc EXCEPT ![p] = "idle"]
    /\ last' = [last EXCEPT ![p] =
                  [fn |-> frame[p].fn, value |-> frame[p].value,
                   zipcode |-> frame[p].zipcode, contains |-> frame[p].contains,
                   err |-> err, used |-> Memo(p), result |-> NoFrame,
                   fetched |-> frame[p].fetched, corrupt |-> frame[p].corrupt,
                   recovers |-> frame[p].recovers, hit |-> frame[p].hit,
                   torn |-> TornRead(p)]]
    /\ frame' = [frame EXCEPT ![p] = NoCall]

\* the download block run on every call
DownloadsAlways(p) == TRUE

\* "if type(state_data) == type(None):" and, inside it,
\* "if not os.path.exists(states_file+".zip"):"
NeedsDownload(p) == Memo(p).none /\ ~Exists(ZipPath(FileOf(frame[p].fn)))

MemoCheck(p) ==
    /\ pc[p] = "enter"
    /\ pc' = [pc EXCEPT ![p] =
                IF NeedsDownload(p) THEN "urlopen"
                ELSE IF Memo(p).none THEN "chk_gdf"
                ELSE "query"]
    /\ UNCHANGED <<fs, state_data, zipcode_data, frame, netio, last, first, again,
                   calls, crashes, crashed, writes>>
    /\ UNCHANGED mainVars

\* urllib.request.urlopen(url) answers
UrlOpenOk(p) ==
    /\ pc[p] = "urlopen"
    /\ netio' = [netio EXCEPT ![p][FileOf(frame[p].fn)] = @ + 1]
    /\ pc' = [pc EXCEPT ![p] = "open_zip"]
    /\ UNCHANGED <<fs, state_data, zipcode_data, frame, last, first, again,
                   calls, crashes, crashed, writes>>
    /\ UNCHANGED mainVars

\* urllib.request.urlopen(url) raises: the with statement is never entered
UrlOpenFails(p) ==
    /\ pc[p] = "urlopen"
    /\ netio' = [netio EXCEPT ![p][FileOf(frame[p].fn)] = @ + 1]
    /\ Raise(p, "URLError")
    /\ UNCHANGED <<fs, state_data, zipcode_data, first, again, calls, crashes, crashed, writes>>
    /\ UNCHANGED mainVars

\* open(states_file+".zip", "wb"): the file is created, or truncated, empty
OpenZip(p) ==
    /\ pc[p] = "open_zip"
    /\ fs' = [fs EXCEPT ![ZipPath(FileOf(frame[p].fn))] = Partial]
    /\ pc' = [pc EXCEPT ![p] = "write_zip"]
    /\ UNCHANGED <<state_data, zipcode_data, frame, netio, last, first, again,
                   calls, crashes, crashed, writes>>
    /\ UNCHANGED mainVars

\* the archive left short of its end when the call goes on
ArchiveUnflushed(file) == Partial

\* the archive file after f.write(resp.read()) and the end of the with statement
ArchiveWritten(file) == Written(Upstream(file))

\* f.write(resp.read()) succeeds
WriteZipOk(p) ==
    /\ pc[p] = "write_zip"
    /\ fs' = [fs EXCEPT ![ZipPath(FileOf(frame[p].fn))] = ArchiveWritten(FileOf(frame[p].fn))]
    /\ writes' = [writes EXCEPT ![ZipPath(FileOf(frame[p].fn))] = @ + 1]
    /\ frame' = [frame EXCEPT ![p].fetched = TRUE]
    /\ pc' = [pc EXCEPT ![p] = "chk_gdf"]
    /\ UNCHANGED <<state_data, zipcode_data, netio, last, first, again,
                   calls, crashes, crashed>>
    /\ UNCHANGED mainVars

\* f.write(resp.read()) raises: "except: os.remove(states_file)" removes the
\* path without ".zip"; with no such file os.remove raises in its turn, with
\* one the exception is swallowed and the call goes on
WriteZipFails(p) ==
    /\ pc[p] = "write_zip"
    /\ IF Exists(BarePath(FileOf(frame[p].fn)))
       THEN /\ fs' = [fs EXCEPT ![BarePath(FileOf(frame[p].fn))] = Absent]
            /\ pc' = [pc EXCEPT ![p] = "chk_gdf"]
            /\ UNCHANGED <<frame, last>>
       ELSE /\ Raise(p, "FileNotFoundError")
            /\ UNCHANGED fs
    /\ UNCHANGED <<state_data, zipcode_data, netio, first, again, calls, crashes, crashed, writes>>
    /\ UNCHANGED mainVars

\* "if not os.path.exists(f"{states_file}.gdf"):"
ChkGdf(p) ==
    /\ pc[p] = "chk_gdf"
    /\ pc' = [pc EXCEPT ![p] = IF Exists(GdfOf(frame[p])) THEN "load" ELSE "parse"]
    /\ UNCHANGED <<fs, state_data, zipcode_data, frame, netio, last, first, again,
                   calls, crashes, crashed, writes>>
    /\ UNCHANGED mainVars

\* what the miss path assigns to the global: the archive as read, cut to the
\* partition when a zipcode is given
Derived(f, archive) ==
    IF f.fn = "get_zipcodes" /\ f.zipcode # None
    THEN Partition(archive, Digit(f.zipcode))
    ELSE archive

SetMemo(p, df) ==
    IF frame[p].fn = "get_states"
    THEN /\ state_data' = [state_data EXCEPT ![p] = Loaded(df)]
         /\ UNCHANGED zipcode_data
    ELSE /\ zipcode_data' = [zipcode_data EXCEPT ![p] = Loaded(df)]
         /\ UNCHANGED state_data

\* geopandas.read_file(f"zip://{states_file}.zip"): a complete archive parses
ParseOk(p) ==
    /\ pc[p] = "parse"
    /\ fs[ZipPath(FileOf(frame[p].fn))].st = "full"
    /\ SetMemo(p, Derived(frame[p], fs[ZipPath(FileOf(frame[p].fn))].data))
    /\ pc' = [pc EXCEPT ![p] = "open_gdf"]
    /\ UNCHANGED <<fs, frame, netio, last, first, again, calls, crashes, crashed, writes>>
    /\ UNCHANGED mainVars

\* geopandas.read_file raises on a truncated archive
ParseFails(p) ==
    /\ pc[p] = "parse"
    /\ fs[ZipPath(FileOf(frame[p].fn))].st # "full"
    /\ Raise(p, "BadZipFile")
    /\ UNCHANGED <<fs, state_data, zipcode_data, netio, first, again, calls, crashes, crashed, writes>>
    /\ UNCHANGED mainVars

\* open(f"{states_file}.gdf","wb")
OpenGdf(p) ==
    /\ pc[p] = "open_gdf"
    /\ fs' = [fs EXCEPT ![GdfOf(frame[p])] = Partial]
    /\ pc' = [pc EXCEPT ![p] = "dump"]
    /\ UNCHANGED <<state_data, zipcode_data, frame, netio, last, first, again,
                   calls, crashes, crashed, writes>>
    /\ UNCHANGED mainVars

\* pickle.dump(state_data,f) and the end of the with statement
Dump(p) ==
    /\ pc[p] = "dump"
    /\ fs' = [fs EXCEPT ![GdfOf(frame[p])] = Written(Memo(p).df)]
    /\ writes' = [writes EXCEPT ![GdfOf(frame[p])] = @ + 1]
    /\ pc' = [pc EXCEPT ![p] = "query"]
    /\ UNCHANGED <<state_data, zipcode_data, frame, netio, last, first, again,
                   calls, crashes, crashed>>
    /\ UNCHANGED mainVars

\* pickle.load(f) of a completely written file
LoadOk(p) ==
    /\ pc[p] = "load"
    /\ fs[GdfOf(frame[p])].st = "full"
    /\ SetMemo(p, fs[GdfOf(frame[p])].data)
    /\ pc' = [pc EXCEPT ![p] = "query"]
    /\ UNCHANGED <<fs, frame, netio, last, first, again, calls, crashes, crashed, writes>>
    /\ UNCHANGED mainVars

\* pickle.load(f) raises on a truncated file; nothing catches it
LoadFails(p) ==
    /\ pc[p] = "load"
    /\ fs[GdfOf(frame[p])].st # "full"
    /\ frame' = [frame EXCEPT ![p] = NoCall]
    /\ pc' = [pc EXCEPT ![p] = "idle"]
    /\ last' = [last EXCEPT ![p] =
                  [fn |-> frame[p].fn, value |-> frame[p].value,
                   zipcode |-> frame[p].zipcode, contains |-> frame[p].contains,
                   err |-> "UnpicklingError", used |-> Memo(p), result |-> NoFrame,
                   fetched |-> frame[p].fetched, corrupt |-> TRUE,
                   recovers |-> frame[p].recovers, hit |-> frame[p].hit,
                   torn |-> TornRead(p)]]
    /\ UNCHANGED <<fs, state_data, zipcode_data, netio, first, again, calls, crashes, crashed, writes>>
    /\ UNCHANGED mainVars

(* ------------------------------------------------------------------ *)
(* get_states / get_zipcodes: answering from the loaded data set       *)
(* ------------------------------------------------------------------ *)
\* get_states: "if contains: ... elif value: ... else: ..."
StatesResult(df, match, value, contains) ==
    IF contains # NoPoint
    THEN ResetIndex(Filter(df, ContainsMask(df, contains)))
    ELSE IF Truthy(value)
    THEN ResetIndex(Filter(df, [i \in 1..Len(df.rows) |-> df.rows[i][match] = value]))
    ELSE df

\* get_zipcodes: "if contains: ... elif zipcode: ... else: ..."
ZipcodesResult(df, zipcode, contains) ==
    IF contains # NoPoint
    THEN ResetIndex(Filter(df, ContainsMask(df, contains)))
    ELSE IF Truthy(zipcode)
    THEN ResetIndex(Filter(df, [i \in 1..Len(df.rows) |->
                                   StartsWith(df.rows[i]["GEOID10"], zipcode)]))
    ELSE df

ResultOf(f, df) ==
    IF f.fn = "get_states" THEN StatesResult(df, "STUSPS", f.value, f.contains)
    ELSE ZipcodesResult(df, f.zipcode, f.contains)

\* the call returns
Query(p) ==
    /\ pc[p] = "query"
    /\ pc' = [pc EXCEPT ![p] = "idle"]
    /\ last' = [last EXCEPT ![p] =
                  [fn |-> frame[p].fn, value |-> frame[p].value,
                   zipcode |-> frame[p].zipcode, contains |-> frame[p].contains,
                   err |-> "ok", used |-> Memo(p),
                   result |-> ResultOf(frame[p], Memo(p).df),
                   fetched |-> frame[p].fetched, corrupt |-> frame[p].corrupt,
                   recovers |-> frame[p].recovers, hit |-> frame[p].hit,
                   torn |-> TornRead(p)]]
    /\ LET key == KeyOf(frame[p].fn, frame[p].zipcode)
       IN  IF ~first[p][key].set
           THEN /\ first' = [first EXCEPT ![p][key] =
                               [set |-> TRUE, used |-> Memo(p), net |-> frame[p].net0]]
                /\ UNCHANGED again
           ELSE /\ again' = [again EXCEPT ![p][key] =
                               [set |-> TRUE, used |-> Memo(p),
                                net |-> netio[p][FileOf(frame[p].fn)] - first[p][key].net]]
                /\ UNCHANGED first
    /\ frame' = [frame EXCEPT ![p] = NoCall]
    /\ UNCHANGED <<fs, state_data, zipcode_data, netio, calls, crashes, crashed, writes>>
    /\ UNCHANGED mainVars

(* ------------------------------------------------------------------ *)
(* Callers and crashes                                                 *)
(* ------------------------------------------------------------------ *)
NoCrash == [window |-> FALSE, key |-> <<"", "">>]

\* the arguments the model calls with
StateValues == {None, <<"D","C">>, <<"Z","Z">>}
ZipcodeArgs == {None, <<"0">>, <<"1">>, <<"2">>}
QueryPoints == {NoPoint, PtDC, PtNY1, PtSea, PtOverlap}

Enter(p, fn, value, zipcode, contains) ==
    /\ pc[p] = "idle"
    /\ pc' = [pc EXCEPT ![p] = "enter"]
    /\ frame' = [frame EXCEPT ![p] =
                   [fn |-> fn, value |-> value, zipcode |-> zipcode, contains |-> contains,
                    net0 |-> netio[p][FileOf(fn)], fetched |-> FALSE, corrupt |-> FALSE,
                    recovers |-> crashed[p].window /\ crashed[p].key = KeyOf(fn, zipcode),
                    hit |-> fs[GdfOf([fn |-> fn, zipcode |-> zipcode])].st = "full"]]
    /\ crashed' = [crashed EXCEPT ![p] = NoCrash]
    /\ last' = [last EXCEPT ![p] = NoLast]

\* a caller of the module calls get_states
CallStates(p) ==
    /\ calls[p] < MaxCalls
    /\ \E value \in StateValues, contains \in QueryPoints :
          /\ (contains # NoPoint => value = None)
          /\ Enter(p, "get_states", value, None, contains)
    /\ calls' = [calls EXCEPT ![p] = @ + 1]
    /\ UNCHANGED <<fs, state_data, zipcode_data, netio, first, again, crashes, writes>>
    /\ UNCHANGED mainVars

\* a caller of the module calls get_zipcodes
CallZipcodes(p) ==
    /\ calls[p] < MaxCalls
    /\ \E zipcode \in ZipcodeArgs, contains \in QueryPoints :
          Enter(p, "get_zipcodes", None, zipcode, contains)
    /\ calls' = [calls EXCEPT ![p] = @ + 1]
    /\ UNCHANGED <<fs, state_data, zipcode_data, netio, first, again, crashes, writes>>
    /\ UNCHANGED mainVars

\* the process dies where it stands and a fresh one takes its place: the
\* globals are gone, the cache directory stays as it is
Crash(p) ==
    /\ crashes < MaxCrash
    /\ crashes' = crashes + 1
    /\ crashed' = [crashed EXCEPT ![p] =
                     [window |-> frame[p].fetched /\ pc[p] \in {"chk_gdf", "parse", "open_gdf"},
                      key |-> KeyOf(frame[p].fn, frame[p].zipcode)]]
    /\ state_data' = [state_data EXCEPT ![p] = Unloaded]
    /\ zipcode_data' = [zipcode_data EXCEPT ![p] = Unloaded]
    /\ pc' = [pc EXCEPT ![p] = "idle"]
    /\ frame' = [frame EXCEPT ![p] = NoCall]
    /\ netio' = [netio EXCEPT ![p] = [f \in {states_file, zipcode_file} |-> 0]]
    /\ last' = [last EXCEPT ![p] = NoLast]
    /\ first' = [first EXCEPT ![p] = [k \in Keys |-> NoUse]]
    /\ again' = [again EXCEPT ![p] = [k \in Keys |-> NoUse]]
    /\ UNCHANGED <<fs, calls, writes>>
    /\ UNCHANGED mainVars

(* ------------------------------------------------------------------ *)
(* Record sets and options                                             *)
(* ------------------------------------------------------------------ *)
\* a record set: the column names and the rows, labelled 0..n-1 as
\* pandas.read_csv labels them
NoData == [columns |-> {}, rows |-> <<>>]

\* a field list is the list its string splits to at ","; "" is <<>>
Star == <<"*">>

\* the defaults
OPTIONS ==
    [state_fields |-> <<"STUSPS">>, zipcode_fields |-> <<"ZCTA5CE10">>,
     tract_fields |-> <<>>]

\* the leading ZIP digits of each state
state_zipcode0 ==
    <<"A","K">> :> <<"9">> @@
    <<"A","L">> :> <<"3">> @@
    <<"A","R">> :> <<"7">> @@
    <<"A","Z">> :> <<"8">> @@
    <<"C","A">> :> <<"9">> @@
    <<"C","O">> :> <<"8">> @@
    <<"C","T">> :> <<"0">> @@
    <<"D","C">> :> <<"2">> @@
    <<"D","C">> :> <<"2">> @@
    <<"D","E">> :> <<"1">> @@
    <<"F","L">> :> <<"3">> @@
    <<"G","A">> :> <<"3">> @@
    <<"H","I">> :> <<"9">> @@
    <<"I","A">> :> <<"5","6">> @@
    <<"I","D">> :> <<"8">> @@
    <<"I","L">> :> <<"6">> @@
    <<"I","N">> :> <<"4">> @@
    <<"K","S">> :> <<"6">> @@
    <<"K","Y">> :> <<"4">> @@
    <<"L","A">> :> <<"7">> @@
    <<"M","A">> :> <<"0">> @@
    <<"M","D">> :> <<"2">> @@
    <<"M","E">> :> <<"0">> @@
    <<"M","I">> :> <<"4">> @@
    <<"M","N">> :> <<"5">> @@
    <<"M","O">> :> <<"6">> @@
    <<"M","S">> :> <<"3">> @@
    <<"M","T">> :> <<"5">> @@
    <<"N","C">> :> <<"2">> @@
    <<"N","D">> :> <<"5">> @@
    <<"N","E">> :> <<"6">> @@
    <<"N","H">> :> <<"3">> @@
    <<"N","J">> :> <<"0">> @@
    <<"N","M">> :> <<"8">> @@
    <<"N","V">> :> <<"8">> @@
    <<"N","Y">> :> <<"0","1">> @@
    <<"O","H">> :> <<"4">> @@
    <<"O","K">> :> <<"7">> @@
    <<"O","R">> :> <<"9">> @@
    <<"P","A">> :> <<"1">> @@
    <<"P","R">> :> <<"0">> @@
    <<"R","I">> :> <<"0">> @@
    <<"S","C">> :> <<"2">> @@
    <<"S","D">> :> <<"5">> @@
    <<"T","N">> :> <<"3">> @@
    <<"T","X">> :> <<"7","8">> @@
    <<"U","T">> :> <<"8">> @@
    <<"V","A">> :> <<"2">> @@
    <<"V","T">> :> <<"0">> @@
    <<"W","A">> :> <<"9">> @@
    <<"W","I">> :> <<"5">> @@
    <<"W","V">> :> <<"2">> @@
    <<"W","Y">> :> <<"8">>

(* ------------------------------------------------------------------ *)
(* main: helpers                                                       *)
(* ------------------------------------------------------------------ *)
\* the process that runs main
MainProc == 1

\* the rows of a frame with every column of columns, NaN where the frame has none
Widen(df, columns) ==
    [i \in 1..Len(df.rows) |->
        [c \in columns |-> IF c \in df.columns THEN df.rows[i][c] ELSE NaN]]

RECURSIVE ConcatRows(_, _)
ConcatRows(frames, columns) ==
    IF frames = <<>> THEN <<>>
    ELSE Widen(Head(frames), columns) \o ConcatRows(Tail(frames), columns)

\* pandas.concat(result,ignore_index=True) of a list that is not empty
Concat(frames) ==
    LET columns == UNION {frames[k].columns : k \in 1..Len(frames)}
    IN  Frame(columns, ConcatRows(frames, columns))

\* an assignment that leaves the column alone in the record set
SetColumnOnly(d, res, field) ==
    [columns |-> {field},
     rows |-> [i \in 1..Len(d.rows) |->
                 [c \in {field} |->
                     IF i <= Len(res.rows) THEN res.rows[i][field] ELSE NaN]]]

\* data[field] = result[field]: the column is aligned on the row labels; a
\* label result does not have gets NaN, rows of result beyond data are dropped
SetColumn(d, res, field) ==
    [columns |-> d.columns \cup {field},
     rows |-> [i \in 1..Len(d.rows) |->
                 [c \in d.columns \cup {field} |->
                     IF c # field THEN d.rows[i][c]
                     ELSE IF i <= Len(res.rows) THEN res.rows[i][field]
                     ELSE NaN]]]

\* a merge that passes over the fields result does not have
RECURSIVE MergeKnownFields(_, _, _)
MergeKnownFields(d, res, fieldlist) ==
    IF fieldlist = <<>> THEN [data |-> d, err |-> "ok"]
    ELSE IF Head(fieldlist) \notin res.columns THEN MergeKnownFields(d, res, Tail(fieldlist))
    ELSE MergeKnownFields(SetColumn(d, res, Head(fieldlist)), res, Tail(fieldlist))

\* "for field in fieldlist: if field not in result.columns: raise ...;
\*  data[field] = result[field]"
RECURSIVE MergeFields(_, _, _)
MergeFields(d, res, fieldlist) ==
    IF fieldlist = <<>> THEN [data |-> d, err |-> "ok"]
    ELSE IF Head(fieldlist) \notin res.columns THEN [data |-> d, err |-> "UnknownField"]
    ELSE MergeFields(SetColumn(d, res, Head(fieldlist)), res, Tail(fieldlist))

\* result.columns.to_list()
RECURSIVE ToList(_)
ToList(S) ==
    IF S = {} THEN <<>>
    ELSE LET c == CHOOSE x \in S : TRUE IN <<c>> \o ToList(S \ {c})

\* "if options[...] == '*': fieldlist.extend(result.columns.to_list())
\*  else: fieldlist.extend(options[...].split(','))"
FieldList(fields, res) == IF fields = Star THEN ToList(res.columns) ELSE fields

\* Point(float(row.loc['longitude']),float(row.loc['latitude']))
Pos(r) == <<r["longitude"], r["latitude"]>>

HasCoordinates(d) == "latitude" \in d.columns /\ "longitude" \in d.columns

\* main ends by raising err
MainRaises(err) ==
    /\ mpc' = "failed"
    /\ merr' = err

\* the group's loop is over: concat, then the merge of the fields
Merged(fields) ==
    IF result = <<>> THEN [data |-> data, err |-> "ValueError"]
    ELSE MergeFields(data, Concat(result), FieldList(fields, Concat(result)))

cacheIdle == <<fs, state_data, zipcode_data, pc, frame, netio, last, first, again,
               calls, crashes, crashed, writes>>

(* ------------------------------------------------------------------ *)
(* main                                                                *)
(* ------------------------------------------------------------------ *)
\* os.makedirs(config['cachedir'],exist_ok=True); "if options["state_fields"]:"
MainBegin ==
    /\ mpc = "start"
    /\ IF options.state_fields # <<>>
       THEN mpc' = "state_loop" /\ group' = "state" /\ result' = <<>> /\ row' = 1
       ELSE mpc' = "zip_begin" /\ UNCHANGED <<group, result, row>>
    /\ UNCHANGED <<data, data0, options, digits, merr, warnings>>
    /\ UNCHANGED cacheIdle

\* state group, one record: get_states by the state column, else by the point
StateRowCall ==
    /\ mpc = "state_loop"
    /\ row <= Len(data.rows)
    /\ "state" \in data.columns \/ HasCoordinates(data)
    /\ IF "state" \in data.columns
       THEN Enter(MainProc, "get_states", data.rows[row]["state"], None, NoPoint)
       ELSE Enter(MainProc, "get_states", None, None, Pos(data.rows[row]))
    /\ mpc' = "state_wait"
    /\ UNCHANGED <<data, data0, options, result, row, digits, group, merr, warnings>>
    /\ UNCHANGED <<fs, state_data, zipcode_data, netio, first, again, calls, crashes, writes>>

\* state group, one record, neither the state nor both coordinate columns
StateRowMissing ==
    /\ mpc = "state_loop"
    /\ row <= Len(data.rows)
    /\ ~("state" \in data.columns \/ HasCoordinates(data))
    /\ MainRaises("MissingColumns")
    /\ UNCHANGED <<data, data0, options, result, row, digits, group, warnings>>
    /\ UNCHANGED cacheIdle

\* result.append(get_states(...))
StateRowRet ==
    /\ mpc = "state_wait"
    /\ pc[MainProc] = "idle"
    /\ last[MainProc].err = "ok"
    /\ result' = Append(result, last[MainProc].result)
    /\ row' = row + 1
    /\ mpc' = "state_loop"
    /\ UNCHANGED <<data, data0, options, digits, group, merr, warnings>>
    /\ UNCHANGED cacheIdle

\* a call of get_states or get_zipcodes raised: nothing in main catches it
CallRaised ==
    /\ mpc \in {"state_wait", "zip_state_wait", "zip_probe_wait"}
    /\ pc[MainProc] = "idle"
    /\ last[MainProc].err \notin {"ok", "none"}
    /\ MainRaises(last[MainProc].err)
    /\ UNCHANGED <<data, data0, options, result, row, digits, group, warnings>>
    /\ UNCHANGED cacheIdle

\* state group, after the loop: concat and merge
StateMerge ==
    /\ mpc = "state_loop"
    /\ row > Len(data.rows)
    /\ data' = Merged(options.state_fields).data
    /\ IF Merged(options.state_fields).err = "ok"
       THEN mpc' = "zip_begin" /\ UNCHANGED merr
       ELSE MainRaises(Merged(options.state_fields).err)
    /\ UNCHANGED <<data0, options, result, row, digits, group, warnings>>
    /\ UNCHANGED cacheIdle

\* "if options["zipcode_fields"]:" and the check of the coordinate columns
ZipBegin ==
    /\ mpc = "zip_begin"
    /\ IF options.zipcode_fields = <<>>
       THEN mpc' = "tract" /\ UNCHANGED <<group, merr, result, row>>
       ELSE IF ~HasCoordinates(data)
       THEN MainRaises("MissingColumns") /\ group' = "zipcode" /\ UNCHANGED <<result, row>>
       ELSE /\ mpc' = "zip_loop" /\ group' = "zipcode" /\ UNCHANGED merr
            /\ result' = <<>>
            /\ row' = 1
    /\ UNCHANGED <<data, data0, options, digits, warnings>>
    /\ UNCHANGED cacheIdle

\* zipcode group, one record: get_states(contains=pos)
ZipRowState ==
    /\ mpc = "zip_loop"
    /\ row <= Len(data.rows)
    /\ Enter(MainProc, "get_states", None, None, Pos(data.rows[row]))
    /\ mpc' = "zip_state_wait"
    /\ UNCHANGED <<data, data0, options, result, row, digits, group, merr, warnings>>
    /\ UNCHANGED <<fs, state_data, zipcode_data, netio, first, again, calls, crashes, writes>>

\* state = get_states(contains=pos)['STUSPS'][0]; state_zipcode0[state]
ZipRowStateRet ==
    /\ mpc = "zip_state_wait"
    /\ pc[MainProc] = "idle"
    /\ last[MainProc].err = "ok"
    /\ IF last[MainProc].result.rows = <<>>
       THEN MainRaises("KeyError") /\ UNCHANGED digits
       ELSE IF last[MainProc].result.rows[1]["STUSPS"] \notin DOMAIN state_zipcode0
       THEN MainRaises("KeyError") /\ UNCHANGED digits
       ELSE /\ digits' = state_zipcode0[last[MainProc].result.rows[1]["STUSPS"]]
            /\ mpc' = "zip_probe"
            /\ UNCHANGED merr
    /\ UNCHANGED <<data, data0, options, result, row, group, warnings>>
    /\ UNCHANGED cacheIdle

\* "for digit in state_zipcode0[state]:" get_zipcodes(digit,contains=pos)
ZipProbe ==
    /\ mpc = "zip_probe"
    /\ digits # <<>>
    /\ Enter(MainProc, "get_zipcodes", None, <<Head(digits)>>, Pos(data.rows[row]))
    /\ digits' = Tail(digits)
    /\ mpc' = "zip_probe_wait"
    /\ UNCHANGED <<data, data0, options, result, row, group, merr, warnings>>
    /\ UNCHANGED <<fs, state_data, zipcode_data, netio, first, again, calls, crashes, writes>>

\* result.append(get_zipcodes(...))
ZipProbeRet ==
    /\ mpc = "zip_probe_wait"
    /\ pc[MainProc] = "idle"
    /\ last[MainProc].err = "ok"
    /\ result' = Append(result, last[MainProc].result)
    /\ mpc' = "zip_probe"
    /\ UNCHANGED <<data, data0, options, row, digits, group, merr, warnings>>
    /\ UNCHANGED cacheIdle

\* every digit of the state is probed: the next record
ZipRowDone ==
    /\ mpc = "zip_probe"
    /\ digits = <<>>
    /\ row' = row + 1
    /\ mpc' = "zip_loop"
    /\ UNCHANGED <<data, data0, options, result, digits, group, merr, warnings>>
    /\ UNCHANGED cacheIdle

\* zipcode group, after the loop: concat and merge
ZipMerge ==
    /\ mpc = "zip_loop"
    /\ row > Len(data.rows)
    /\ data' = Merged(options.zipcode_fields).data
    /\ IF Merged(options.zipcode_fields).err = "ok"
       THEN mpc' = "tract" /\ UNCHANGED merr
       ELSE MainRaises(Merged(options.zipcode_fields).err)
    /\ UNCHANGED <<data0, options, result, row, digits, group, warnings>>
    /\ UNCHANGED cacheIdle

\* a tract group that adds the columns it is asked for, empty
TractFills(d, fields) ==
    [columns |-> d.columns \cup {fields[n] : n \in DOMAIN fields},
     rows |-> [i \in 1..Len(d.rows) |->
                 [c \in d.columns \cup {fields[n] : n \in DOMAIN fields} |->
                     IF c \in d.columns THEN d.rows[i][c] ELSE NaN]]]

\* what the tract group makes of the record set: "return data"
TractResult(d, fields) == d

\* "if options["tract_fields"]: warning(...); return data" and "return data";
\* warnings counts the calls of the warning function main is given
Tract ==
    /\ mpc = "tract"
    /\ IF options.tract_fields # <<>>
       THEN /\ warnings' = warnings + 1
            /\ group' = "tract"
            /\ data' = TractResult(data, options.tract_fields)
       ELSE UNCHANGED <<warnings, group, data>>
    /\ mpc' = "done"
    /\ UNCHANGED <<data0, options, result, row, digits, merr>>
    /\ UNCHANGED cacheIdle

(* ------------------------------------------------------------------ *)
(* Specifications                                                      *)
(* ------------------------------------------------------------------ *)
vars == <<fs, state_data, zipcode_data, pc, frame, netio, last, first, again,
          calls, crashes, crashed, writes, mainVars>>

\* module import: the globals are None; the cache directory is empty
Init ==
    /\ fs = [path \in Paths |-> Absent]
    /\ state_data = [p \in Procs |-> Unloaded]
    /\ zipcode_data = [p \in Procs |-> Unloaded]
    /\ pc = [p \in Procs |-> "idle"]
    /\ frame = [p \in Procs |-> NoCall]
    /\ netio = [p \in Procs |-> [f \in {states_file, zipcode_file} |-> 0]]
    /\ last = [p \in Procs |-> NoLast]
    /\ first = [p \in Procs |-> [k \in Keys |-> NoUse]]
    /\ again = [p \in Procs |-> [k \in Keys |-> NoUse]]
    /\ calls = [p \in Procs |-> 0]
    /\ crashes = 0
    /\ crashed = [p \in Procs |-> NoCrash]
    /\ writes = [path \in Paths |-> 0]
    /\ mpc = "off"
    /\ data = NoData
    /\ data0 = NoData
    /\ options = OPTIONS
    /\ result = <<>>
    /\ row = 1
    /\ digits = <<>>
    /\ group = "none"
    /\ merr = "none"
    /\ warnings = 0

\* a step of a call in progress
GetStep(p) ==
    \/ MemoCheck(p)
    \/ UrlOpenOk(p)
    \/ UrlOpenFails(p)
    \/ OpenZip(p)
    \/ WriteZipOk(p)
    \/ WriteZipFails(p)
    \/ ChkGdf(p)
    \/ ParseOk(p)
    \/ ParseFails(p)
    \/ OpenGdf(p)
    \/ Dump(p)
    \/ LoadOk(p)
    \/ LoadFails(p)
    \/ Query(p)

\* one process at a time uses the cache directory (section 5: single-threaded,
\* synchronous), runs of the program following one another
Next ==
    \/ CallStates(1)
    \/ CallZipcodes(1)
    \/ GetStep(1)
    \/ Crash(1)

Spec == Init /\ [][Next]_vars

\* the record sets main is run on: the columns, and up to MaxRows rows
RowValues ==
    { [state |-> <<"D","C">>, longitude |-> PtDC[1], latitude |-> PtDC[2], STUSPS |-> <<"o","l","d">>],
      [state |-> <<"Z","Z">>, longitude |-> PtSea[1], latitude |-> PtSea[2], STUSPS |-> <<"o","l","d">>],
      [state |-> <<"N","Y">>, longitude |-> PtNY0[1], latitude |-> PtNY0[2], STUSPS |-> <<"o","l","d">>],
      [state |-> <<"N","Y">>, longitude |-> PtNYNoZip[1], latitude |-> PtNYNoZip[2], STUSPS |-> <<"o","l","d">>],
      [state |-> <<"N","H">>, longitude |-> PtNH[1], latitude |-> PtNH[2], STUSPS |-> <<"o","l","d">>],
      [state |-> <<"G","U">>, longitude |-> PtGU[1], latitude |-> PtGU[2], STUSPS |-> <<"o","l","d">>],
      [state |-> <<"N","J">>, longitude |-> PtOverlap[1], latitude |-> PtOverlap[2], STUSPS |-> <<"o","l","d">>] }

ColumnSets ==
    { {"state"}, {"latitude"}, {"address"}, {"latitude", "longitude", "STUSPS"} }

RowsUpTo(n) == UNION {[1..k -> RowValues] : k \in 0..n}

RecordSet(columns, values) ==
    [columns |-> columns,
     rows |-> [i \in 1..Len(values) |->
                 [c \in columns |-> IF c = "address" THEN <<"?">> ELSE values[i][c]]]]

StateFieldLists == {<<>>, <<"STUSPS">>, <<"STUSPS", "NOFIELD">>, <<"NOFIELD", "STUSPS">>}
ZipcodeFieldLists == {<<>>, <<"ZCTA5CE10">>, <<"NOFIELD">>}
TractFieldLists == {<<>>, <<"TRACTCE">>}

\* the options of a run: the state and zipcode field lists, the groups after
\* a list with an unknown field left out, since main never reaches them
OptionSets ==
    { o \in [state_fields : StateFieldLists, zipcode_fields : ZipcodeFieldLists,
              tract_fields : TractFieldLists] :
        /\ o.state_fields \notin {<<>>, <<"STUSPS">>} => o.zipcode_fields = <<>>
        /\ (o.state_fields \notin {<<>>, <<"STUSPS">>} \/ o.zipcode_fields = <<"NOFIELD">>)
              => o.tract_fields = <<>> }

\* the cache directories earlier runs leave behind: empty; everything the
\* geography needs; a states archive cut short by a failed download; both
\* archives and a states .gdf cut short by a crash
EmptyDir == [path \in Paths |-> Absent]

ArchivesOnly ==
    [EmptyDir EXCEPT ![ZipPath(states_file)] = Written(StateArchive),
                     ![ZipPath(zipcode_file)] = Written(ZipcodeArchive)]

WarmDir ==
    [path \in Paths |->
        IF path[3] = ".zip" THEN Written(Upstream(path[1]))
        ELSE IF path = GdfPath(states_file, "") THEN Written(StateArchive)
        ELSE IF path[1] = zipcode_file /\ path[2] \in {"0", "1", "2"}
        THEN Written(Partition(ZipcodeArchive, path[2]))
        ELSE Absent]

CacheDirs ==
    { EmptyDir, WarmDir,
      [EmptyDir EXCEPT ![ZipPath(states_file)] = Partial],
      [ArchivesOnly EXCEPT ![GdfPath(states_file, "")] = Partial] }

\* a run of the program on a cache directory earlier runs left
InitMain ==
    /\ fs \in CacheDirs
    /\ state_data = [p \in Procs |-> Unloaded]
    /\ zipcode_data = [p \in Procs |-> Unloaded]
    /\ pc = [p \in Procs |-> "idle"]
    /\ frame = [p \in Procs |-> NoCall]
    /\ netio = [p \in Procs |-> [f \in {states_file, zipcode_file} |-> 0]]
    /\ last = [p \in Procs |-> NoLast]
    /\ first = [p \in Procs |-> [k \in Keys |-> NoUse]]
    /\ again = [p \in Procs |-> [k \in Keys |-> NoUse]]
    /\ calls = [p \in Procs |-> 0]
    /\ crashes = 0
    /\ crashed = [p \in Procs |-> NoCrash]
    /\ writes = [path \in Paths |-> 0]
    /\ mpc = "start"
    /\ \E columns \in ColumnSets, values \in RowsUpTo(MaxRows) :
          /\ data = RecordSet(columns, values)
          /\ data0 = RecordSet(columns, values)
    /\ options \in OptionSets
    /\ result = <<>>
    /\ row = 1
    /\ digits = <<>>
    /\ group = "none"
    /\ merr = "none"
    /\ warnings = 0

NextMain ==
    \/ MainBegin
    \/ StateRowCall
    \/ StateRowMissing
    \/ StateRowRet
    \/ CallRaised
    \/ StateMerge
    \/ ZipBegin
    \/ ZipRowState
    \/ ZipRowStateRet
    \/ ZipProbe
    \/ ZipProbeRet
    \/ ZipRowDone
    \/ ZipMerge
    \/ Tract
    \/ GetStep(MainProc)

SpecMain == InitMain /\ [][NextMain]_vars

\* processes run at the same time on one cache directory, each calling the
\* cache for whole data sets
RECURSIVE CallsMade(_)
CallsMade(P) ==
    IF P = {} THEN 0
    ELSE LET p == CHOOSE q \in P : TRUE IN calls[p] + CallsMade(P \ {p})

CallConcurrent(p) ==
    /\ CallsMade(Procs) < MaxConcCalls
    /\ \/ Enter(p, "get_states", None, None, NoPoint)
       \/ \E zipcode \in {None, <<"1">>} : Enter(p, "get_zipcodes", None, zipcode, NoPoint)
    /\ calls' = [calls EXCEPT ![p] = @ + 1]
    /\ UNCHANGED <<fs, state_data, zipcode_data, netio, first, again, crashes, writes>>
    /\ UNCHANGED mainVars

NextConc == \E p \in Procs : CallConcurrent(p) \/ GetStep(p)

SpecConc == Init /\ [][NextConc]_vars

(* ------------------------------------------------------------------ *)
(* Properties                                                          *)
(* ------------------------------------------------------------------ *)
\* the key of the call that just ended
LastKey(p) == KeyOf(last[p].fn, last[p].zipcode)

\* C1: a get_zipcodes call for digit k that returns was answered from the
\* features of the national archive whose GEOID10 starts with k, whatever
\* calls came before it in the process.
C1_AnsweredFromOwnPartition ==
    \A p \in Procs :
        (last[p].fn = "get_zipcodes" /\ last[p].err = "ok" /\ last[p].zipcode # None)
            => last[p].used = Loaded(DatasetOf(LastKey(p)))

\* C2: once a call for a key has returned in a process, every later call for
\* the same key that returns used an equal data set, and from the start of
\* the first call on the process opened the archive's URL at most once.
C2_GetIdempotent ==
    \A p \in Procs : \A key \in Keys :
        again[p][key].set =>
            /\ again[p][key].used = first[p][key].used
            /\ again[p][key].net <= 1

\* C2 witness: a second call for a key returned in a process whose first call
\* for that key downloaded the archive
C2_Witness ==
    \E p \in Procs : \E key \in Keys :
        /\ again[p][key].set
        /\ again[p][key].net = 1
        /\ first[p][key].set

\* C3: a call that failed while fetching or writing the archive leaves no
\* file at the archive path.
C3_NoPartialArchive ==
    \A p \in Procs :
        last[p].err \in {"URLError", "FileNotFoundError"}
            => ~Exists(ZipPath(FileOf(last[p].fn)))

\* C4: for each cache key the archive is written once and the serialized
\* form is written once, however many callers ask for it at the same time.
C4_SingleFlight == \A path \in Paths : writes[path] <= 1

C6_CorruptRederived ==
    \A p \in Procs :
        last[p].corrupt =>
            /\ last[p].err = "ok"
            /\ last[p].used = Loaded(DatasetOf(LastKey(p)))

\* the rows of the key's data set whose polygon contains the point
Enclosing(key, pt) ==
    {i \in 1..Len(DatasetOf(key).rows) : Contains(DatasetOf(key).rows[i]["geometry"], pt)}

\* C7: a containment lookup that ends without an error found a polygon of
\* the key's data set around the point, and returns the attributes of every
\* such polygon: for a point outside all of them it ends with an error.
C7_ContainmentLookup ==
    \A p \in Procs :
        (last[p].err = "ok" /\ last[p].contains # NoPoint) =>
            /\ Enclosing(LastKey(p), last[p].contains) # {}
            /\ \A i \in Enclosing(LastKey(p), last[p].contains) :
                  \E j \in 1..Len(last[p].result.rows) :
                      \A c \in DatasetOf(LastKey(p)).columns :
                          last[p].result.rows[j][c] = DatasetOf(LastKey(p)).rows[i][c]

\* the features of a data set that belong to a record: the state row of its
\* state column when the record set has one, else the polygons around its point
StateFeatures(d, i) ==
    {k \in 1..Len(StateArchive.rows) :
        IF "state" \in d.columns
        THEN StateArchive.rows[k]["STUSPS"] = d.rows[i]["state"]
        ELSE Contains(StateArchive.rows[k]["geometry"], Pos(d.rows[i]))}

ZctaFeatures(d, i) ==
    {k \in 1..Len(ZipcodeArchive.rows) :
        Contains(ZipcodeArchive.rows[k]["geometry"], Pos(d.rows[i]))}

\* C8: when main returns, every record that has a feature holds, in each field
\* named for an enabled group, that field of its own feature (whatever the
\* column held before); read for record sets none of whose points lies under
\* two polygons.
C8_MergedPerRecord ==
    ( /\ mpc = "done"
      /\ \A i \in 1..Len(data0.rows) :
            /\ options.state_fields # <<>> => Cardinality(StateFeatures(data0, i)) <= 1
            /\ options.zipcode_fields # <<>> => Cardinality(ZctaFeatures(data0, i)) <= 1 ) =>
        \A i \in 1..Len(data0.rows) :
            /\ \A n \in 1..Len(options.state_fields) :
                  \A k \in StateFeatures(data0, i) :
                      options.state_fields[n] \in StateArchive.columns =>
                          data.rows[i][options.state_fields[n]]
                              = StateArchive.rows[k][options.state_fields[n]]
            /\ \A n \in 1..Len(options.zipcode_fields) :
                  \A k \in ZctaFeatures(data0, i) :
                      options.zipcode_fields[n] \in ZipcodeArchive.columns =>
                          data.rows[i][options.zipcode_fields[n]]
                              = ZipcodeArchive.rows[k][options.zipcode_fields[n]]

\* C9: with the state group alone requested and a state column given, main
\* returns only if every record's state value matches a row of the state
\* data set.
C9_UnknownStateFails ==
    ( /\ mpc = "done"
      /\ options.state_fields # <<>>
      /\ options.zipcode_fields = <<>>
      /\ options.tract_fields = <<>>
      /\ "state" \in data0.columns )
        => \A i \in 1..Len(data0.rows) : StateFeatures(data0, i) # {}

\* C10: main ends with the missing-columns error when the state group is
\* requested on a record set with neither a state column nor both coordinate
\* columns, and when it reaches a requested zipcode group on a record set
\* without both coordinate columns; record sets with no rows included.
C10_MissingColumns ==
    mpc \in {"done", "failed"} =>
        /\ (options.state_fields # <<>>
              /\ ~("state" \in data0.columns \/ HasCoordinates(data0)))
             => (mpc = "failed" /\ merr = "MissingColumns")
        /\ (options.zipcode_fields # <<>> /\ ~HasCoordinates(data0) /\ group # "state")
             => (mpc = "failed" /\ merr = "MissingColumns")

(* ------------------------------------------------------------------ *)
(* C15: when several polygons contain the query point, the containment *)
(* lookup returns the first of them in data set order only, never all  *)
(* of them: a lookup by a point returns at most one feature, and that  *)
(* one is the first row of the data set used whose polygon contains    *)
(* the point.                                                          *)
(* ------------------------------------------------------------------ *)
FirstMatch(df, pt) ==
    LET hits == {i \in 1..Len(df.rows) : Contains(df.rows[i].geometry, pt)}
    IN  IF hits = {} THEN <<>>
        ELSE <<df.rows[CHOOSE i \in hits : \A j \in hits : i <= j]>>

C15_FirstMatchOnly ==
    \A p \in Procs :
        (last[p].err = "ok" /\ last[p].contains # NoPoint) =>
            /\ Len(last[p].result.rows) <= 1
            /\ [i \in 1..Len(last[p].result.rows) |->
                    [c \in DOMAIN last[p].result.rows[i] \ {"index"} |->
                        last[p].result.rows[i][c]]]
                 = FirstMatch(last[p].used.df, last[p].contains)

(* ------------------------------------------------------------------ *)
(* C16: once the serialized file of a key is there, completely         *)
(* written, every call for that key is a cache hit: it succeeds, the   *)
(* data set it uses is the one the file holds, and the file is the     *)
(* same afterwards.                                                    *)
(* ------------------------------------------------------------------ *)
C16_HitUsesSerialized ==
    \A p \in Procs :
        (last[p].fn # "none" /\ last[p].hit) =>
            /\ last[p].err = "ok"
            /\ fs[GdfOf(last[p])].st = "full"
            /\ last[p].used = Loaded(fs[GdfOf(last[p])].data)

(* ------------------------------------------------------------------ *)
(* C19: with processes calling side by side, no process parses an      *)
(* archive or deserializes a file that another process has created and *)
(* not finished writing.                                               *)
(* ------------------------------------------------------------------ *)
C19_NoTornRead == \A p \in Procs : ~last[p].torn

(* ------------------------------------------------------------------ *)
(* C11: when a group's loop is over and its field list names a field   *)
(* the features found do not have, main raises the unknown-field error *)
(* and returns nothing, wherever in the list the field stands.         *)
(* ------------------------------------------------------------------ *)
\* the group's loop is over and result holds data frames to concatenate
AtMerge(loop) == mpc = loop /\ row > Len(data.rows) /\ result # <<>>

\* the field list names a field that is no column of the concatenated result
NamesUnknown(fields) ==
    /\ fields # Star
    /\ \E n \in DOMAIN fields : fields[n] \notin Concat(result).columns

C11_UnknownFieldAborts ==
    [][ /\ (AtMerge("state_loop") /\ NamesUnknown(options.state_fields))
            => (mpc' = "failed" /\ merr' = "UnknownField")
        /\ (AtMerge("zip_loop") /\ NamesUnknown(options.zipcode_fields))
            => (mpc' = "failed" /\ merr' = "UnknownField") ]_vars

\* main has raised the unknown-field error for a field that is not the first
\* of its list
C11_Witness ==
    /\ mpc = "failed"
    /\ merr = "UnknownField"
    /\ group = "state"
    /\ options.state_fields = <<"STUSPS", "NOFIELD">>

(* ------------------------------------------------------------------ *)
(* C12: with tract fields requested, main completes, calls the warning *)
(* function exactly once, and returns the record set as the state and  *)
(* zipcode groups left it.                                             *)
(* ------------------------------------------------------------------ *)
C12_TractIsNoOp ==
    [][ (mpc = "tract" /\ options.tract_fields # <<>>)
            => (mpc' = "done" /\ data' = data /\ warnings = 0 /\ warnings' = 1) ]_vars

\* a run with tract fields has returned, after the other groups merged
C12_Witness ==
    /\ mpc = "done"
    /\ group = "tract"
    /\ warnings = 1
    /\ data # data0

(* ------------------------------------------------------------------ *)
(* C13: in the zipcode group every record contributes exactly one      *)
(* feature (the probing of its state's partitions stops at the first   *)
(* match, and a record no partition has a polygon for ends main with   *)
(* an error): between records, result holds one row per record done;  *)
(* read for record sets none of whose points lies under two polygons.  *)
(* ------------------------------------------------------------------ *)
RECURSIVE RowsIn(_)
RowsIn(frames) ==
    IF frames = <<>> THEN 0 ELSE Len(Head(frames).rows) + RowsIn(Tail(frames))

C13_OneFeaturePerRecord ==
    ( /\ group = "zipcode"
      /\ mpc = "zip_loop"
      /\ \A i \in 1..Len(data0.rows) :
            /\ Cardinality({k \in 1..Len(StateArchive.rows) :
                    Contains(StateArchive.rows[k]["geometry"], Pos(data0.rows[i]))}) <= 1
            /\ Cardinality(ZctaFeatures(data0, i)) <= 1 )
        => RowsIn(result) = row - 1

(* ------------------------------------------------------------------ *)
(* C14: the zipcode group goes on to a record's partitions only when   *)
(* exactly one state polygon contains the record's point.              *)
(* ------------------------------------------------------------------ *)
C14_ExactlyOneState ==
    ( /\ group = "zipcode"
      /\ mpc = "zip_probe"
      /\ last[MainProc].fn = "get_states" )
        => Len(last[MainProc].result.rows) = 1

(* ------------------------------------------------------------------ *)
(* C17: every state the zipcode group resolves for a record has an     *)
(* entry in state_zipcode0, and the entry's digits include the leading *)
(* digit of every ZCTA lying within the state.                         *)
(* ------------------------------------------------------------------ *)
Within(inner, outer) ==
    /\ outer.x0 <= inner.x0 /\ inner.x1 <= outer.x1
    /\ outer.y0 <= inner.y0 /\ inner.y1 <= outer.y1

C17_TableCoversStates ==
    ( /\ group = "zipcode"
      /\ mpc \in {"zip_probe", "failed"}
      /\ last[MainProc].fn = "get_states"
      /\ last[MainProc].err = "ok" )
        => \A i \in 1..Len(last[MainProc].result.rows) :
              LET state == last[MainProc].result.rows[i] IN
              /\ state["STUSPS"] \in DOMAIN state_zipcode0
              /\ \A k \in 1..Len(ZipcodeArchive.rows) :
                    Within(ZipcodeArchive.rows[k].geometry, state.geometry) =>
                        \E n \in DOMAIN state_zipcode0[state["STUSPS"]] :
                            state_zipcode0[state["STUSPS"]][n]
                                = Digit(ZipcodeArchive.rows[k]["GEOID10"])

(* ------------------------------------------------------------------ *)
(* C18: when main raises, the record set of the caller is as it was    *)
(* given: no column added, none overwritten.                           *)
(* ------------------------------------------------------------------ *)
C18_AllOrNothing == mpc = "failed" => data = data0

\* C18, amended: when main raises, the record set keeps the columns merged
\* before the failure and nothing else of it changes: the rows are the same
\* in number, no column is lost, a column added is a field requested, every
\* column that is no requested field holds what it held, and the record set
\* is as it was given when main raises before the first merge.
Requested ==
    {options.state_fields[n] : n \in DOMAIN options.state_fields}
        \cup {options.zipcode_fields[n] : n \in DOMAIN options.zipcode_fields}

C18_MergedBeforeFailureStay ==
    mpc = "failed" =>
        /\ Len(data.rows) = Len(data0.rows)
        /\ data0.columns \subseteq data.columns
        /\ data.columns \subseteq data0.columns \cup Requested
        /\ \A i \in 1..Len(data0.rows) : \A c \in data0.columns \ Requested :
              data.rows[i][c] = data0.rows[i][c]
        /\ (merr # "UnknownField" /\ (group = "state" \/ options.state_fields = <<>>))
              => data = data0

\* main has raised after a merge
C18_Witness == mpc = "failed" /\ data # data0

====
